---- MODULE Spec2Model ----
(***************************************************************************)
(* tm-notify: polls the Terra Mystica view-game endpoint for each          *)
(* configured game, compares the fetched state with the snapshot kept in   *)
(* the S3 bucket, posts a notification to the webhook when the state has   *)
(* changed and then replaces the snapshot (tm-notify/src/main.rs).         *)
(***************************************************************************)
EXTENDS Integers, Sequences, FiniteSets, TLC

VARIABLES
    store,      \* the bucket: game id -> raw gamefile, or NoSuchKey
    webhook,    \* opts.webhook, fixed at build time: None or Some(url)
    pc,         \* the invocation: "idle", "running", "ok" or "err"
    idx,        \* position of run's loop in GAME_IDS
    posted,     \* webhook POSTs made by the current invocation, in order
    last,       \* what the latest call of process did
    game,       \* input of the message functions (SpecCompose)
    composed,   \* result of notification_message(game) (SpecCompose)
    upstream    \* game id -> the document the game server keeps serving
                \* while the game stands still (SpecFixed), else None

vars == <<store, webhook, pc, idx, posted, last, game, composed, upstream>>

----------------------------------------------------------------------------
(* Rust's Option and Result. *)

None == <<>>
Some(v) == <<v>>
IsSome(o) == o # <<>>
Unwrap(o) == o[1]

Ok(v) == [tag |-> "Ok", val |-> <<v>>]
Err(e) == [tag |-> "Err", val |-> <<e>>]
IsOk(r) == r.tag = "Ok"
IsErr(r) == r.tag = "Err"
Val(r) == r.val[1]

----------------------------------------------------------------------------
(* Bounds of the model. *)

\* longest action_required list among the inputs of the message functions
MaxActions == 2

----------------------------------------------------------------------------
(* The typed game state. *)

\* struct ActionRequired: four optional strings
ActionRequired(from_faction, type, faction, player) ==
    [from_faction |-> from_faction, type |-> type,
     faction |-> faction, player |-> player]

\* struct ViewGameResponse
ViewGameResponse(finished, active_faction, action_required) ==
    [finished |-> finished, active_faction |-> active_faction,
     action_required |-> action_required]

----------------------------------------------------------------------------
(* The message functions. *)

\* notify_full_turn with active_faction.unwrap_or_default()
notify_full_turn_default(g) ==
    Ok((IF IsSome(g.active_faction) THEN Unwrap(g.active_faction) ELSE "")
           \o " should take their turn")

\* notify_full_turn
notify_full_turn(g) ==
    IF IsSome(g.active_faction)
    THEN Ok(Unwrap(g.active_faction) \o " should take their turn")
    ELSE Err("full turn required but no active faction??")

\* the loop body with the commented-out "leech" arm put back
LingeringLinesLeech(it) ==
    LET factionLines ==
            IF IsSome(it.faction) /\ IsSome(it.type)
            THEN LET faction == Unwrap(it.faction)
                     type == Unwrap(it.type)
                 IN  << CASE type = "dwelling" -> faction \o " should place a dwelling"
                          [] type = "leech" -> faction \o " may gain power"
                          [] type = "cult" -> faction \o " may advance on a cult track"
                          [] type = "bonus" -> faction \o " should pick a bonus tile"
                          [] OTHER -> faction \o " may " \o type >>
            ELSE << >>
        playerLines ==
            IF IsSome(it.player) /\ IsSome(it.type)
            THEN LET player == Unwrap(it.player)
                     type == Unwrap(it.type)
                 IN  IF type = "faction"
                     THEN << player \o " should pick a faction" >>
                     ELSE << player \o " may " \o type >>
            ELSE << >>
    IN  factionLines \o playerLines

\* the loop body with the player arm as an `else if` of the faction arm
LingeringLinesElse(it) ==
    IF IsSome(it.faction) /\ IsSome(it.type)
    THEN LET faction == Unwrap(it.faction)
             type == Unwrap(it.type)
         IN  << CASE type = "dwelling" -> faction \o " should place a dwelling"
                  [] type = "cult" -> faction \o " may advance on a cult track"
                  [] type = "bonus" -> faction \o " should pick a bonus tile"
                  [] OTHER -> faction \o " may " \o type >>
    ELSE IF IsSome(it.player) /\ IsSome(it.type)
    THEN LET player == Unwrap(it.player)
             type == Unwrap(it.type)
         IN  IF type = "faction"
             THEN << player \o " should pick a faction" >>
             ELSE << player \o " may " \o type >>
    ELSE << >>

\* the lines one requirement pushes onto `notify` in notify_lingering's loop
LingeringLines(it) ==
    LET factionLines ==
            IF IsSome(it.faction) /\ IsSome(it.type)
            THEN LET faction == Unwrap(it.faction)
                     type == Unwrap(it.type)
                 IN  << CASE type = "dwelling" -> faction \o " should place a dwelling"
                          [] type = "cult" -> faction \o " may advance on a cult track"
                          [] type = "bonus" -> faction \o " should pick a bonus tile"
                          [] OTHER -> faction \o " may " \o type >>
            ELSE << >>
        playerLines ==
            IF IsSome(it.player) /\ IsSome(it.type)
            THEN LET player == Unwrap(it.player)
                     type == Unwrap(it.type)
                 IN  IF type = "faction"
                     THEN << player \o " should pick a faction" >>
                     ELSE << player \o " may " \o type >>
            ELSE << >>
    IN  factionLines \o playerLines

\* the vector `notify` after the loop over actions_required
RECURSIVE LingeringNotify(_)
LingeringNotify(actions_required) ==
    IF actions_required = << >> THEN << >>
    ELSE LingeringLines(Head(actions_required))
             \o LingeringNotify(Tail(actions_required))

\* [String]::join(sep)
RECURSIVE Join(_, _)
Join(lines, sep) ==
    IF lines = << >> THEN ""
    ELSE IF Len(lines) = 1 THEN lines[1]
    ELSE lines[1] \o sep \o Join(Tail(lines), sep)

\* notify_lingering
notify_lingering(actions_required) ==
    Join(LingeringNotify(actions_required), "\n")

\* the closure of notification_message: is this requirement a full turn?
IsFull(it) == IsSome(it.type) /\ Unwrap(it.type) = "full"

\* the scan looking at the first requirement only
is_full_turn_first(action_required) ==
    Len(action_required) > 0 /\ IsFull(action_required[1])

\* action_required.iter().any(..)
is_full_turn(action_required) ==
    \E i \in 1..Len(action_required) : IsFull(action_required[i])

\* notification_message taking a missing action_required for the end of the
\* game, as the command-line variant assumed
notification_message_absent_gameover(g) ==
    IF g.finished = Some(1) THEN Ok(Some("gameover"))
    ELSE IF IsSome(g.action_required)
    THEN LET action_required == Unwrap(g.action_required)
         IN  IF is_full_turn(action_required)
             THEN LET m == notify_full_turn(g)
                  IN  IF IsErr(m) THEN m ELSE Ok(Some(Val(m)))
             ELSE Ok(Some(notify_lingering(action_required)))
    ELSE Ok(Some("gameover"))

\* notification_message with the finished check after the requirements
notification_message_actions_first(g) ==
    IF IsSome(g.action_required)
    THEN LET action_required == Unwrap(g.action_required)
         IN  IF is_full_turn(action_required)
             THEN LET m == notify_full_turn(g)
                  IN  IF IsErr(m) THEN m ELSE Ok(Some(Val(m)))
             ELSE Ok(Some(notify_lingering(action_required)))
    ELSE IF g.finished = Some(1) THEN Ok(Some("gameover"))
    ELSE Ok(None)

\* notification_message: Result<Option<String>>
notification_message(g) ==
    IF g.finished = Some(1) THEN Ok(Some("gameover"))
    ELSE IF IsSome(g.action_required)
    THEN LET action_required == Unwrap(g.action_required)
         IN  IF is_full_turn(action_required)
             THEN LET m == notify_full_turn(g)
                  IN  IF IsErr(m) THEN m ELSE Ok(Some(Val(m)))
             ELSE Ok(Some(notify_lingering(action_required)))
    ELSE Ok(None)

----------------------------------------------------------------------------
(* The raw documents: JSON as served by the game server and as kept in the *)
(* bucket.  A member of an object is absent, null, a number, a string or   *)
(* an array.                                                               *)

JAbsent == [t |-> "absent"]
JNull == [t |-> "null"]
JNum(n) == [t |-> "num", num |-> n]
JStr(s) == [t |-> "str", str |-> s]
JArr(a) == [t |-> "arr", arr |-> a]

\* one element of "action_required"; leech_id is a member the program does
\* not declare
Req(from_faction, type, faction, player, leech_id) ==
    [t |-> "obj", from_faction |-> from_faction, type |-> type,
     faction |-> faction, player |-> player, leech_id |-> leech_id]

\* a response body that is a JSON object; ledger is a member the program
\* does not declare
Obj(finished, active_faction, action_required, ledger) ==
    [json |-> TRUE, finished |-> finished, active_faction |-> active_faction,
     action_required |-> action_required, ledger |-> ledger]

\* a response body that is no JSON object (an error page)
NotJson == [json |-> FALSE]

\* serde: Option<i32>
DeOptI32(j) ==
    CASE j.t \in {"absent", "null"} -> Ok(None)
      [] j.t = "num" -> Ok(Some(j.num))
      [] OTHER -> Err("invalid type")

\* serde: Option<String>
DeOptString(j) ==
    CASE j.t \in {"absent", "null"} -> Ok(None)
      [] j.t = "str" -> Ok(Some(j.str))
      [] OTHER -> Err("invalid type")

\* serde: the derived Deserialize of ActionRequired (unknown members are
\* ignored)
DeActionRequired(j) ==
    IF j.t # "obj" THEN Err("invalid type")
    ELSE LET from_faction == DeOptString(j.from_faction)
             type == DeOptString(j.type)
             faction == DeOptString(j.faction)
             player == DeOptString(j.player)
         IN  IF IsErr(from_faction) \/ IsErr(type) \/ IsErr(faction) \/ IsErr(player)
             THEN Err("invalid type")
             ELSE Ok(ActionRequired(Val(from_faction), Val(type),
                                    Val(faction), Val(player)))

\* serde: Option<Vec<ActionRequired>>
DeOptActions(j) ==
    CASE j.t \in {"absent", "null"} -> Ok(None)
      [] j.t = "arr" ->
            IF \E i \in 1..Len(j.arr) : IsErr(DeActionRequired(j.arr[i]))
            THEN Err("invalid type")
            ELSE Ok(Some([i \in 1..Len(j.arr) |-> Val(DeActionRequired(j.arr[i]))]))
      [] OTHER -> Err("invalid type")

\* serde_json::from_slice::<ViewGameResponse>
from_slice(gamedata) ==
    IF ~gamedata.json THEN Err("expected value")
    ELSE LET finished == DeOptI32(gamedata.finished)
             active_faction == DeOptString(gamedata.active_faction)
             action_required == DeOptActions(gamedata.action_required)
         IN  IF IsErr(finished) \/ IsErr(active_faction) \/ IsErr(action_required)
             THEN Err("invalid type")
             ELSE Ok(ViewGameResponse(Val(finished), Val(active_faction),
                                      Val(action_required)))

----------------------------------------------------------------------------
(* Equality of the typed state: #[derive(PartialEq, Eq)]. *)

\* Option<String> == Option<String>, Option<i32> == Option<i32>
OptionEq(a, b) ==
    IF IsSome(a) /\ IsSome(b) THEN Unwrap(a) = Unwrap(b)
    ELSE ~IsSome(a) /\ ~IsSome(b)

\* derived PartialEq of ActionRequired
ActionRequiredEq(a, b) ==
    /\ OptionEq(a.from_faction, b.from_faction)
    /\ OptionEq(a.type, b.type)
    /\ OptionEq(a.faction, b.faction)
    /\ OptionEq(a.player, b.player)

\* a comparison of the lists that does not look at the order
VecEqUnordered(a, b) ==
    /\ Len(a) = Len(b)
    /\ \A i \in 1..Len(a) : \E j \in 1..Len(b) : ActionRequiredEq(a[i], b[j])
    /\ \A j \in 1..Len(b) : \E i \in 1..Len(a) : ActionRequiredEq(a[i], b[j])

\* Vec<ActionRequired> == Vec<ActionRequired>
VecEq(a, b) ==
    /\ Len(a) = Len(b)
    /\ \A i \in 1..Len(a) : ActionRequiredEq(a[i], b[i])

\* Option<Vec<ActionRequired>> == Option<Vec<ActionRequired>>
OptionVecEq(a, b) ==
    IF IsSome(a) /\ IsSome(b) THEN VecEq(Unwrap(a), Unwrap(b))
    ELSE ~IsSome(a) /\ ~IsSome(b)

\* derived PartialEq of ViewGameResponse
ViewGameResponseEq(a, b) ==
    /\ OptionEq(a.finished, b.finished)
    /\ OptionEq(a.active_faction, b.active_faction)
    /\ OptionVecEq(a.action_required, b.action_required)

----------------------------------------------------------------------------
(* Configuration and the documents the game server serves in the model. *)

\* const GAME_IDS (a second game stands for "new games require a new build")
GAME_IDS == << "terramysticians20210803", "terramysticians20210714" >>

GameIds == { GAME_IDS[i] : i \in 1..Len(GAME_IDS) }

\* const WEBHOOK = option_env!("WEBHOOK"): either value, fixed by the build
Webhooks == { None, Some("https://hooks.slack.com/services/T") }

\* the bucket has no object under the key
NoSuchKey == [json |-> FALSE, missing |-> TRUE]

Leech == Req(JStr("cultists"), JStr("leech"), JStr("witches"), JAbsent, JNum(82))
Full == Req(JAbsent, JStr("full"), JStr("witches"), JAbsent, JAbsent)
Dwelling == Req(JAbsent, JStr("dwelling"), JStr("mermaids"), JAbsent, JAbsent)
Cult == Req(JAbsent, JStr("cult"), JStr("witches"), JAbsent, JAbsent)
PickFaction == Req(JAbsent, JStr("faction"), JAbsent, JStr("Johanvr"), JAbsent)
GameOver == Req(JAbsent, JStr("gameover"), JAbsent, JAbsent, JAbsent)

DocFactionSelection == Obj(JAbsent, JNull, JArr(<< PickFaction >>), JAbsent)
DocFullTurn == Obj(JAbsent, JStr("witches"), JArr(<< Leech, Full >>), JAbsent)
\* the same state served with another undeclared member: other bytes
DocFullTurnLedger == Obj(JNull, JStr("witches"), JArr(<< Leech, Full >>), JNum(7))
DocFullNoActive == Obj(JNum(0), JNull, JArr(<< Full >>), JAbsent)
DocFinished == Obj(JNum(1), JStr("cultists"), JArr(<< GameOver >>), JAbsent)
DocNoActions == Obj(JNum(0), JAbsent, JAbsent, JAbsent)
DocEmptyActions == Obj(JNum(0), JNull, JArr(<< >>), JAbsent)
DocLingering == Obj(JAbsent, JStr("witches"), JArr(<< Dwelling, Cult >>), JAbsent)
DocLingeringSwapped == Obj(JAbsent, JStr("witches"), JArr(<< Cult, Dwelling >>), JAbsent)
DocBadType == Obj(JStr("yes"), JNull, JAbsent, JAbsent)

\* the bodies the game server may answer with
Docs == { DocFactionSelection, DocFullTurn, DocFullTurnLedger, DocFullNoActive,
          DocFinished, DocNoActions, DocEmptyActions, DocLingering,
          DocLingeringSwapped, DocBadType, NotJson }

\* the game server's answers to the view-game request
Fetches == { Ok(d) : d \in Docs } \cup { Err("connection") }

\* S3's answers to a GetObject or a PutObject
S3Answers == { "served", "failed" }

\* the webhook's answers: an HTTP status, or 0 for a failed connection
WebhookAnswers == { 200, 500, 0 }

----------------------------------------------------------------------------
(* The steps of process. *)

\* load_game: Result<(Bytes, ViewGameResponse)>
load_game(fetch) ==
    IF IsErr(fetch) THEN fetch
    ELSE LET view == from_slice(Val(fetch))
         IN  IF IsErr(view) THEN view
             ELSE Ok([gamedata |-> Val(fetch), game |-> Val(view)])

\* is_game_changed with the branches of the comparison exchanged
is_game_changed_swapped(object, g, get) ==
    IF get = "failed" THEN Err("s3 get")
    ELSE IF object = NoSuchKey THEN Ok(TRUE)
    ELSE LET cached_game == from_slice(object)
         IN  IF IsErr(cached_game) THEN cached_game
             ELSE IF ViewGameResponseEq(Val(cached_game), g) THEN Ok(TRUE)
             ELSE Ok(FALSE)

\* is_game_changed without the NoSuchKey arm: every GetObject error is
\* returned
is_game_changed_no_new_game(object, g, get) ==
    IF get = "failed" THEN Err("s3 get")
    ELSE IF object = NoSuchKey THEN Err("NoSuchKey")
    ELSE LET cached_game == from_slice(object)
         IN  IF IsErr(cached_game) THEN cached_game
             ELSE IF ViewGameResponseEq(Val(cached_game), g) THEN Ok(FALSE)
             ELSE Ok(TRUE)

\* is_game_changed: Result<bool>, given the object under the game's key
is_game_changed(object, g, get) ==
    IF get = "failed" THEN Err("s3 get")
    ELSE IF object = NoSuchKey THEN Ok(TRUE)
    ELSE LET cached_game == from_slice(object)
         IN  IF IsErr(cached_game) THEN cached_game
             ELSE IF ViewGameResponseEq(Val(cached_game), g) THEN Ok(FALSE)
             ELSE Ok(TRUE)

\* resp.status().is_success()
is_success(status) == status >= 200 /\ status < 300

\* notify without the check of the response status
notify_ignore_status(status) ==
    IF status = 0 THEN Err("connection") ELSE Ok("unit")

\* notify: Result<()>, given the webhook's answer
notify(status) ==
    IF status = 0 THEN Err("connection")
    ELSE IF ~is_success(status) THEN Err("webhook failed")
    ELSE Ok("unit")

\* upload_gamefile: Result<()>
upload_gamefile(put) ==
    IF put = "failed" THEN Err("s3 put") ELSE Ok("unit")

\* what a call of process did
Outcome(game_id, prev, gamedata, changed, message, post, uploaded, result) ==
    [game_id |-> game_id, prev |-> prev, gamedata |-> gamedata,
     changed |-> changed, message |-> message, post |-> post,
     uploaded |-> uploaded, result |-> result]

NoCall == Outcome("", NoSuchKey, None, None, None, None, FALSE, Ok("unit"))

\* the upload under a fixed key instead of the game's
PutObjectFirstKey(bucket, game_id, gamedata) ==
    [bucket EXCEPT ![GAME_IDS[1]] = gamedata]

\* put_object().key(..).body(gamedata)
PutObject(bucket, game_id, gamedata) == [bucket EXCEPT ![game_id] = gamedata]

\* run's loop logging the error of process and going on with the next id
ReturnContinue(outcome) ==
    \E out \in { outcome } :
        /\ last' = out
        /\ store' = IF out.uploaded
                    THEN PutObject(store, out.game_id, Unwrap(out.gamedata))
                    ELSE store
        /\ posted' = posted \o out.post
        /\ IF idx = Len(GAME_IDS)
           THEN pc' = (IF IsErr(out.result) THEN "err" ELSE "ok") /\ idx' = idx
           ELSE pc' = "running" /\ idx' = idx + 1

\* process returns `outcome`; run's loop goes on to the next game id, or run
\* returns at the `?`
Return(outcome) ==
    \E out \in { outcome } :
        /\ last' = out
        /\ store' = IF out.uploaded
                    THEN PutObject(store, out.game_id, Unwrap(out.gamedata))
                    ELSE store
        /\ posted' = posted \o out.post
        /\ IF IsErr(out.result)
           THEN pc' = "err" /\ idx' = idx
           ELSE IF idx = Len(GAME_IDS)
           THEN pc' = "ok" /\ idx' = idx
           ELSE pc' = "running" /\ idx' = idx + 1

\* process, line 98: upload_gamefile(..).await?
Upload(game_id, gamedata, message, post) ==
    \E put \in S3Answers :
        \E saved \in { upload_gamefile(put) } :
            Return(Outcome(game_id, store[game_id], Some(gamedata), Some(TRUE),
                           Some(message), post, IsOk(saved), saved))

\* process with the upload moved before the message is composed
DispatchSaveFirst(game_id, gamedata, g) ==
    \E message \in { notification_message(g) } :
        IF IsErr(message)
        THEN Return(Outcome(game_id, store[game_id], Some(gamedata), Some(TRUE),
                            Some(message), None, TRUE, message))
        ELSE IF IsSome(Val(message)) /\ IsSome(webhook)
        THEN \E status \in WebhookAnswers :
                \E post \in { Some([game_id |-> game_id,
                                    message |-> Unwrap(Val(message)),
                                    status |-> status]) } :
                    \E sent \in { notify(status) } :
                        IF IsErr(sent)
                        THEN Return(Outcome(game_id, store[game_id], Some(gamedata),
                                            Some(TRUE), Some(message), post, TRUE, sent))
                        ELSE Upload(game_id, gamedata, message, post)
        ELSE Upload(game_id, gamedata, message, None)

\* process, lines 91-97: the message and its dispatch
Dispatch(game_id, gamedata, g) ==
    \E message \in { notification_message(g) } :
        IF IsErr(message)
        THEN Return(Outcome(game_id, store[game_id], Some(gamedata), Some(TRUE),
                            Some(message), None, FALSE, message))
        ELSE IF IsSome(Val(message)) /\ IsSome(webhook)
        THEN \E status \in WebhookAnswers :
                \E post \in { Some([game_id |-> game_id,
                                    message |-> Unwrap(Val(message)),
                                    status |-> status]) } :
                    \E sent \in { notify(status) } :
                        IF IsErr(sent)
                        THEN Return(Outcome(game_id, store[game_id], Some(gamedata),
                                            Some(TRUE), Some(message), post, FALSE, sent))
                        ELSE Upload(game_id, gamedata, message, post)
        ELSE Upload(game_id, gamedata, message, None)

\* process, lines 87-89: the change detection
Detect(game_id, gamedata, g) ==
    \E get \in S3Answers :
        \E changed \in { is_game_changed(store[game_id], g, get) } :
            IF IsErr(changed)
            THEN Return(Outcome(game_id, store[game_id], Some(gamedata), None,
                                None, None, FALSE, changed))
            ELSE IF ~Val(changed)
            THEN Return(Outcome(game_id, store[game_id], Some(gamedata),
                                Some(FALSE), None, None, FALSE, Ok("unit")))
            ELSE Dispatch(game_id, gamedata, g)

\* process
process(game_id) ==
    \E fetch \in Fetches :
        \E loaded \in { load_game(fetch) } :
            IF IsErr(loaded)
            THEN Return(Outcome(game_id, store[game_id], None, None, None, None,
                                FALSE, loaded))
            ELSE Detect(game_id, Val(loaded).gamedata, Val(loaded).game)

----------------------------------------------------------------------------
(* The invocations. *)

\* what the bucket may hold under a game's key before the first invocation:
\* nothing, or an object that is no gamefile (left by another writer)
InitialObjects == { NoSuchKey, NotJson }

Init ==
    /\ store \in [GameIds -> InitialObjects]
    /\ webhook \in Webhooks
    /\ pc = "idle"
    /\ idx = 1
    /\ posted = << >>
    /\ last = NoCall
    /\ game = None
    /\ composed = None
    /\ upstream = None

\* func: the scheduler invokes the function; run starts its loop
Invoke ==
    /\ pc # "running"
    /\ pc' = "running"
    /\ idx' = 1
    /\ posted' = << >>
    /\ UNCHANGED <<store, webhook, last, game, composed, upstream>>

\* one iteration of run's loop: process(GAME_IDS[idx]) and the `?` after it
Process ==
    /\ pc = "running"
    /\ process(GAME_IDS[idx])
    /\ UNCHANGED <<webhook, game, composed, upstream>>

Next == Invoke \/ Process

Spec == Init /\ [][Next]_vars

----------------------------------------------------------------------------
(* The message functions on their own: every game state within the bounds  *)
(* is given to notification_message.                                       *)

Types == { "full", "dwelling", "cult", "bonus", "leech", "faction" }

\* requirements as the server sends them: from_faction comes with a leech
Requirements ==
    { ActionRequired(ff, t, f, p) :
        ff \in { None }, t \in { None } \cup { Some(x) : x \in Types },
        f \in { None, Some("witches") }, p \in { None, Some("Johanvr") } }
    \cup
    { ActionRequired(Some("cultists"), Some("leech"), f, None) :
        f \in { None, Some("witches") } }

ActionLists == UNION { [1..n -> Requirements] : n \in 0..MaxActions }

Games ==
    { ViewGameResponse(fin, af, ar) :
        fin \in { None, Some(0), Some(1) },
        af \in { None, Some("cultists") },
        ar \in { None } \cup { Some(l) : l \in ActionLists } }

InitCompose ==
    /\ store = [id \in GameIds |-> NoSuchKey]
    /\ webhook = None
    /\ pc = "idle"
    /\ idx = 1
    /\ posted = << >>
    /\ last = NoCall
    /\ game \in { Some(g) : g \in Games }
    /\ composed = None
    /\ upstream = None

\* let message = notification_message(&game)
Compose ==
    /\ IsSome(game)
    /\ composed = None
    /\ composed' = Some(notification_message(Unwrap(game)))
    /\ UNCHANGED <<store, webhook, pc, idx, posted, last, game, upstream>>

NextCompose == Compose

SpecCompose == InitCompose /\ [][NextCompose]_vars

----------------------------------------------------------------------------
(* Repeated invocations while the games stand still: the game server keeps *)
(* serving the same document for each id, S3 serves every request, and the *)
(* webhook may fail but succeeds eventually.                               *)

\* the documents that parse and compose to a message
MessageDocs ==
    { d \in Docs :
        /\ IsOk(from_slice(d))
        /\ IsOk(notification_message(Val(from_slice(d))))
        /\ IsSome(Val(notification_message(Val(from_slice(d))))) }

\* the snapshots the bucket may hold when the games come to a standstill
StandstillObjects == { NoSuchKey, DocNoActions }

InitFixed ==
    /\ store \in [GameIds -> StandstillObjects]
    /\ webhook \in Webhooks \ { None }
    /\ pc = "idle"
    /\ idx = 1
    /\ posted = << >>
    /\ last = NoCall
    /\ game = None
    /\ composed = None
    /\ upstream \in { Some(u) : u \in [GameIds -> MessageDocs] }

\* one iteration of run's loop with the fixed document fetched and S3
\* serving the GetObject and the PutObject
ProcessFixed ==
    /\ IsSome(upstream)
    /\ Process
    /\ last'.gamedata = Some(Unwrap(upstream)[last'.game_id])
    /\ last'.result \notin { Err("s3 get"), Err("s3 put") }

\* the iteration for game id `id` in which the webhook answers with success
Delivers(id) ==
    /\ ProcessFixed
    /\ last'.game_id = id
    /\ IsSome(last'.post)
    /\ is_success(Unwrap(last'.post).status)

NextFixed == Invoke \/ ProcessFixed

\* the scheduler keeps invoking the function, an invocation runs on, and a
\* dispatch that is attempted again and again succeeds at some attempt
FairFixed ==
    /\ WF_vars(Invoke)
    /\ WF_vars(ProcessFixed)
    /\ \A id \in GameIds : SF_vars(Delivers(id))

SpecFixed == InitFixed /\ [][NextFixed]_vars /\ FairFixed

----------------------------------------------------------------------------
(* Properties of the message functions (SpecCompose). *)

ComposeInput == Unwrap(game)
ComposeResult == Unwrap(composed)
Composed == IsSome(game) /\ IsSome(composed)

\* the requirements of the input, << >> when action_required is absent
InputActions ==
    IF IsSome(ComposeInput.action_required)
    THEN Unwrap(ComposeInput.action_required) ELSE << >>

\* some requirement of the input has kind "full"
InputHasFull ==
    \E i \in 1..Len(InputActions) : InputActions[i].type = Some("full")

\* C4: a state with finished == 1 composes to Some("gameover") whatever its
\* other fields are; no error is raised even with a "full" requirement and
\* no active faction.
C4_FinishedIsGameover ==
    (Composed /\ ComposeInput.finished = Some(1))
        => /\ IsOk(ComposeResult)
           /\ Val(ComposeResult) = Some("gameover")

C4_Witness ==
    /\ Composed
    /\ ComposeInput.finished = Some(1)
    /\ ComposeInput.active_faction = None
    /\ InputHasFull
    /\ IsOk(ComposeResult)
    /\ Val(ComposeResult) = Some("gameover")

\* C5: with finished != 1, a "full" requirement anywhere in the list and
\* active_faction = f, the message is exactly "f should take their turn".
C5_FullTurnMessage ==
    (/\ Composed
     /\ ComposeInput.finished # Some(1)
     /\ InputHasFull
     /\ IsSome(ComposeInput.active_faction))
        => /\ IsOk(ComposeResult)
           /\ Val(ComposeResult) =
                  Some(Unwrap(ComposeInput.active_faction) \o " should take their turn")

C5_Witness ==
    /\ Composed
    /\ ComposeInput.finished # Some(1)
    /\ Len(InputActions) = 2
    /\ InputActions[1] = ActionRequired(Some("cultists"), Some("leech"), Some("witches"), None)
    /\ InputActions[2].type = Some("full")
    /\ IsOk(ComposeResult)
    /\ Val(ComposeResult) = Some("cultists should take their turn")

\* C6: notification_message fails exactly when finished != 1, a "full"
\* requirement is present and active_faction is absent; otherwise it
\* returns a value.
C6_ErrorExactlyOnFullWithoutActive ==
    Composed
        => (IsErr(ComposeResult)
              <=> /\ ComposeInput.finished # Some(1)
                  /\ InputHasFull
                  /\ ComposeInput.active_faction = None)

C6_Witness ==
    /\ Composed
    /\ IsErr(ComposeResult)
    /\ ComposeInput.finished = Some(0)
    /\ Len(InputActions) = 2
    /\ InputActions[2].type = Some("full")

\* the line the claim gives a faction-scoped requirement
ClaimFactionLine(faction, kind) ==
    IF kind = "dwelling" THEN faction \o " should place a dwelling"
    ELSE IF kind = "cult" THEN faction \o " may advance on a cult track"
    ELSE IF kind = "bonus" THEN faction \o " should pick a bonus tile"
    ELSE faction \o " may " \o kind

\* the line the claim gives a player-scoped requirement
ClaimPlayerLine(player, kind) ==
    IF kind = "faction" THEN player \o " should pick a faction"
    ELSE player \o " may " \o kind

\* the lines the claim gives one requirement
ClaimLines(it) ==
    IF it.type = None THEN << >>
    ELSE (IF it.faction = None THEN << >>
          ELSE << ClaimFactionLine(it.faction[1], it.type[1]) >>)
         \o
         (IF it.player = None THEN << >>
          ELSE << ClaimPlayerLine(it.player[1], it.type[1]) >>)

\* the lines of the first n requirements of the input, in list order
RECURSIVE ClaimLinesUpTo(_)
ClaimLinesUpTo(n) ==
    IF n = 0 THEN << >>
    ELSE ClaimLinesUpTo(n - 1) \o ClaimLines(InputActions[n])

\* lines with one newline between consecutive lines
RECURSIVE ClaimJoin(_)
ClaimJoin(lines) ==
    IF Len(lines) = 0 THEN ""
    ELSE IF Len(lines) = 1 THEN lines[1]
    ELSE ClaimJoin(SubSeq(lines, 1, Len(lines) - 1)) \o "\n" \o lines[Len(lines)]

\* C10: with finished != 1 and no "full" requirement in a present list, the
\* message is the requirements' lines in list order joined by one newline,
\* each line non-empty and phrased by kind as the claim lists.
C10_LingeringMessage ==
    (/\ Composed
     /\ ComposeInput.finished # Some(1)
     /\ IsSome(ComposeInput.action_required)
     /\ ~InputHasFull)
        => LET lines == ClaimLinesUpTo(Len(InputActions))
           IN  /\ IsOk(ComposeResult)
               /\ Val(ComposeResult) = Some(ClaimJoin(lines))
               /\ \A i \in 1..Len(lines) : lines[i] # ""

C10_Witness ==
    /\ Composed
    /\ ComposeInput.finished # Some(1)
    /\ Len(InputActions) = 2
    /\ InputActions[1] = ActionRequired(None, Some("dwelling"), Some("witches"), None)
    /\ InputActions[2] = ActionRequired(None, Some("faction"), None, Some("Johanvr"))
    /\ IsOk(ComposeResult)
    /\ Val(ComposeResult) =
           Some("witches should place a dwelling\nJohanvr should pick a faction")

\* requirement i of the input carries faction, player and kind
CarriesBoth(i) ==
    /\ InputActions[i].faction # None
    /\ InputActions[i].player # None
    /\ InputActions[i].type # None

\* C16: in the lingering path a requirement with faction, player and kind
\* contributes its faction line immediately followed by its player line,
\* between the lines of the requirements before and after it.
C16_FactionThenPlayerLine ==
    (/\ Composed
     /\ ComposeInput.finished # Some(1)
     /\ IsSome(ComposeInput.action_required)
     /\ ~InputHasFull)
        => \A i \in 1..Len(InputActions) :
              CarriesBoth(i)
                 => LET it == InputActions[i]
                        before == LingeringNotify(SubSeq(InputActions, 1, i - 1))
                        after == LingeringNotify(
                                     SubSeq(InputActions, i + 1, Len(InputActions)))
                        own == << ClaimFactionLine(it.faction[1], it.type[1]),
                                  ClaimPlayerLine(it.player[1], it.type[1]) >>
                    IN  /\ IsOk(ComposeResult)
                        /\ Val(ComposeResult) = Some(ClaimJoin(before \o own \o after))

C16_Witness ==
    /\ Composed
    /\ ComposeInput.finished # Some(1)
    /\ Len(InputActions) = 2
    /\ InputActions[1] = ActionRequired(None, Some("dwelling"), Some("witches"), Some("Johanvr"))
    /\ InputActions[2] = ActionRequired(None, Some("cult"), Some("witches"), None)
    /\ IsOk(ComposeResult)
    /\ Val(ComposeResult) =
           Some("witches should place a dwelling\nJohanvr may dwelling\nwitches may advance on a cult track")

----------------------------------------------------------------------------
(* Properties of process (Spec). *)

\* the latest call of process fetched a document that parsed
Fetched == IsSome(last.gamedata)
FetchedState == Val(from_slice(Unwrap(last.gamedata)))

\* the latest call of process posted to the webhook and the webhook
\* answered with a status that is no success
DispatchFailed ==
    /\ IsSome(last.post)
    /\ Unwrap(last.post).status # 0
    /\ ~(Unwrap(last.post).status >= 200 /\ Unwrap(last.post).status < 300)

\* C1 as claimed: after a failed dispatch the fetched snapshot is stored
\* under the game id all the same.
C1_PersistsAfterFailedDispatch ==
    DispatchFailed => store[last.game_id] = Unwrap(last.gamedata)

\* C1 as the code has it: after a failed dispatch process returns the error
\* and writes nothing; the object under the game id is the one found by
\* the call, and detection on the same fetched state reports a change again.
C1_FailedDispatchKeepsSnapshot ==
    DispatchFailed
        => /\ IsErr(last.result)
           /\ ~last.uploaded
           /\ store[last.game_id] = last.prev
           /\ is_game_changed(store[last.game_id], FetchedState, "served") = Ok(TRUE)

C1_Witness ==
    /\ DispatchFailed
    /\ Unwrap(last.post).status = 500
    /\ last.prev # NoSuchKey
    /\ store[last.game_id] = last.prev

\* the fetched state has no requirement that contributes a line
NoLineContributed ==
    /\ Fetched
    /\ FetchedState.finished # Some(1)
    /\ IsSome(FetchedState.action_required)
    /\ \A i \in 1..Len(Unwrap(FetchedState.action_required)) :
          LET it == Unwrap(FetchedState.action_required)[i]
          IN  /\ it.type # Some("full")
              /\ (it.type = None \/ (it.faction = None /\ it.player = None))

\* C2: a changed state whose present requirement list contributes no line
\* composes to None and nothing is posted for it.
C2_NoEmptyMessage ==
    (NoLineContributed /\ IsSome(last.message))
        => /\ IsOk(Unwrap(last.message))
           /\ Val(Unwrap(last.message)) = None
           /\ last.post = None

\* the step is a call of process for the game id whose stored snapshot
\* parses to the state fetched by the call
RefetchesStoredState ==
    /\ pc = "running"
    /\ last'.game_id = GAME_IDS[idx]
    /\ IsSome(last'.gamedata)
    /\ store[GAME_IDS[idx]] # NoSuchKey
    /\ IsOk(from_slice(store[GAME_IDS[idx]]))
    /\ Val(from_slice(store[GAME_IDS[idx]]))
         = Val(from_slice(Unwrap(last'.gamedata)))

\* C3: once a state is stored for a game id, a poll of that id fetching an
\* equal state posts nothing and writes nothing.
C3_NoRenotification ==
    [][RefetchesStoredState
         => /\ posted' = posted
            /\ store' = store
            /\ last'.post = None
            /\ ~last'.uploaded]_vars

C3_Witness ==
    /\ Fetched
    /\ last.changed = Some(FALSE)
    /\ last.prev # NoSuchKey
    /\ FetchedState.finished = Some(1)
    /\ store[last.game_id] = last.prev

\* the latest call of process compared the fetched state with a stored one
Compared == Fetched /\ last.prev # NoSuchKey /\ IsSome(last.changed)
PrevState == Val(from_slice(last.prev))

\* C7: with a stored snapshot, detection reports a change iff the stored
\* and the fetched state differ in finished, active_faction or the ordered
\* list; it is irreflexive and symmetric.
C7_ChangedIffNotEqual ==
    Compared
        => /\ Unwrap(last.changed) = (PrevState # FetchedState)
           /\ is_game_changed(Unwrap(last.gamedata), FetchedState, "served") = Ok(FALSE)
           /\ is_game_changed(last.prev, PrevState, "served") = Ok(FALSE)
           /\ is_game_changed(last.prev, FetchedState, "served")
                = is_game_changed(Unwrap(last.gamedata), PrevState, "served")

C7_Witness ==
    /\ Compared
    /\ last.prev = DocLingering
    /\ Unwrap(last.gamedata) = DocLingeringSwapped
    /\ last.changed = Some(TRUE)

\* C8: when the bucket has no object for the game id and S3 answers so,
\* detection reports a change and no error, whatever state was fetched.
C8_FirstObservationChanged ==
    (Fetched /\ last.prev = NoSuchKey /\ last.result # Err("s3 get"))
        => last.changed = Some(TRUE)

C8_Witness ==
    /\ Fetched
    /\ last.prev = NoSuchKey
    /\ last.changed = Some(TRUE)
    /\ IsOk(last.result)
    /\ last.message = Some(Ok(None))

\* C9: after a call of process that detected a change and returned Ok, the
\* object under the game id is the fetched document, and it parses to the
\* fetched state.
C9_StoredIsFetched ==
    (last.changed = Some(TRUE) /\ IsOk(last.result))
        => /\ store[last.game_id] = Unwrap(last.gamedata)
           /\ IsOk(from_slice(store[last.game_id]))
           /\ ViewGameResponseEq(Val(from_slice(store[last.game_id])), FetchedState)

C9_Witness ==
    /\ last.changed = Some(TRUE)
    /\ IsOk(last.result)
    /\ last.game_id = GAME_IDS[2]
    /\ last.message = Some(Ok(None))
    /\ last.prev # NoSuchKey
    /\ store[last.game_id] = Unwrap(last.gamedata)

\* the game states within the bounds with action_required absent and
\* finished != 1
AbsentActionGames ==
    { x \in Games : x.action_required = None /\ x.finished # Some(1) }

\* C11: a state with action_required absent and finished != 1 composes to
\* None, and a call of process that fetched such a state posts nothing.
C11_AbsentActionsNoNotification ==
    /\ \A g \in AbsentActionGames : notification_message(g) = Ok(None)
    /\ (/\ Fetched
        /\ FetchedState.action_required = None
        /\ FetchedState.finished # Some(1))
           => /\ last.post = None
              /\ IsSome(last.message) => last.message = Some(Ok(None))

C11_Witness ==
    /\ Fetched
    /\ FetchedState.action_required = None
    /\ FetchedState.finished # Some(1)
    /\ IsSome(webhook)
    /\ last.changed = Some(TRUE)
    /\ last.message = Some(Ok(None))
    /\ last.post = None
    /\ last.uploaded

\* the errors of a document that does not parse and of a full turn without
\* an active faction
MalformedOrInconsistent ==
    { Err("expected value"), Err("invalid type"),
      Err("full turn required but no active faction??") }

\* C12: a call of process that fails because the fetched document or the
\* stored snapshot does not parse, or because a full turn has no active
\* faction, ends the invocation in error, posts nothing and leaves the
\* bucket as it was.
C12_ParseOrConsistencyErrorNoEffect ==
    [][(pc = "running" /\ last'.result \in MalformedOrInconsistent)
         => /\ pc' = "err"
            /\ last'.post = None
            /\ posted' = posted
            /\ ~last'.uploaded
            /\ store' = store]_vars

C12_Witness ==
    /\ pc = "err"
    /\ Fetched
    /\ last.prev = NotJson
    /\ last.result = Err("expected value")
    /\ last.post = None
    /\ store[last.game_id] = NotJson

C14_StopsAtFirstFailure ==
    [][/\ pc = "running"
          => /\ last'.game_id = GAME_IDS[idx]
             /\ SubSeq(posted', 1, Len(posted)) = posted
             /\ \A j \in 1..(idx - 1) : store'[GAME_IDS[j]] = store[GAME_IDS[j]]
             /\ IF IsErr(last'.result)
                THEN pc' = "err" /\ idx' = idx
                ELSE IF idx = Len(GAME_IDS)
                THEN pc' = "ok"
                ELSE pc' = "running" /\ idx' = idx + 1
       /\ pc = "err"
          => /\ store' = store
             /\ last' = last
             /\ pc' = "running"
             /\ idx' = 1]_vars

C14_Witness ==
    /\ pc = "err"
    /\ idx = 1
    /\ last.game_id = GAME_IDS[1]
    /\ IsErr(last.result)
    /\ store[GAME_IDS[1]] \notin InitialObjects
    /\ store[GAME_IDS[2]] \notin InitialObjects

----------------------------------------------------------------------------
(* Properties of repeated polls of a game that stands still (SpecFixed). *)

UpstreamOf(id) == Unwrap(upstream)[id]
MessageOf(id) ==
    Unwrap(Val(notification_message(Val(from_slice(UpstreamOf(id))))))
Persisted(id) == store[id] = UpstreamOf(id)

\* C15: with the webhook configured and the served state s of a game held
\* fixed, differing from the stored snapshot and having message m: every
\* poll before s is stored posts m, s is stored only by a poll whose post
\* succeeded, every poll after that posts nothing, and s is stored
\* eventually.
C15_DeliveredThenPersisted ==
    /\ [][pc = "running"
            => LET id == GAME_IDS[idx]
               IN  IF ~Persisted(id)
                   THEN /\ IsSome(last'.post)
                        /\ Unwrap(last'.post).game_id = id
                        /\ Unwrap(last'.post).message = MessageOf(id)
                        /\ posted' = Append(posted, Unwrap(last'.post))
                        /\ IF is_success(Unwrap(last'.post).status)
                           THEN store' = [store EXCEPT ![id] = UpstreamOf(id)]
                           ELSE store' = store
                   ELSE /\ last'.post = None
                        /\ posted' = posted
                        /\ store' = store]_vars
    /\ \A id \in GameIds : <>[]Persisted(id)

C15_Witness ==
    /\ IsSome(upstream)
    /\ last.game_id = GAME_IDS[2]
    /\ last.prev = DocNoActions
    /\ IsSome(last.post)
    /\ Unwrap(last.post).status = 200
    /\ Unwrap(last.post).message = MessageOf(GAME_IDS[2])
    /\ Persisted(GAME_IDS[1])
    /\ Persisted(GAME_IDS[2])

====
